---- MODULE Spec2Model ----
(***************************************************************************)
(* Email assistant: the new-mail callback (system_init.on_new_email), the  *)
(* reply workflow (EmailAgent / WrokflowNodes, a LangGraph state graph),   *)
(* and the mailbox watchers (EmailListener polling path, EmailListenerIdle) *)
(***************************************************************************)
EXTENDS Integers, Sequences, FiniteSets, TLC

(***************************************************************************)
(* Bounds of the model.                                                    *)
(***************************************************************************)
\* calls of on_new_email in one behaviour
MaxDeliveries == 2
\* longest batch handed to on_new_email
MaxBatch == 2
\* C of the processed-id caches: the caches evict C ids as soon as they hold
\* more than 2C (the program has C = 500, 2C = 1000)
HalfCap == 1
\* recursion_limit of compiled_workflow.invoke (the program has 1000)
RecursionLimit == 6

\* messages that ever arrive in the watched mailbox
MaxMail == 3
\* poll cycles of EmailListener whose search succeeds
MaxPolls == 2
\* sessions the listener's IMAPClient may have opened and not closed
MaxSessions == 2

\* batches the detection thread submits while the completion callbacks are
\* followed statement by statement
MaxSubmits == 2

\* task ids the TaskManager is called with
MaxTasks == 2

MaxCache == 2 * HalfCap

\* message ids that exist: one more than the cache holds; id m is sent by Sender(m)
NumMsgs == MaxCache + 1

Msgs == 1..NumMsgs

\* the same with one id more, a second message of the master
MoreMsgs == 1..(NumMsgs + 1)

\* the two pool workers that may run on_new_email at the same time
Workers == {1, 2}

TaskIds == 1..MaxTasks

(***************************************************************************)
(* Configuration: EmailConfig master_email / imap email.                   *)
(***************************************************************************)
master_email == "master"
assistant_email == "assistant"

\* from_email of message m: ids 1, 4, .. are the master's, 2, 5, .. are mails
\* the assistant sent itself, 3, 6, .. come from somebody else
Sender(m) ==
    CASE m % 3 = 1 -> master_email
      [] m % 3 = 2 -> assistant_email
      [] OTHER     -> "stranger"

(***************************************************************************)
(* Conversation turns (langchain messages).  A plain string returned under *)
(* "messages" is coerced to a HumanMessage by the add_messages reducer.    *)
(***************************************************************************)
Turn(t, n, c, calls, m) ==
    [type |-> t, name |-> n, content |-> c, tool_calls |-> calls, of |-> m]

AIMessage(c, calls, m) == Turn("ai", "", c, calls, m)
HumanMessage(c, m)     == Turn("human", "", c, <<>>, m)
ToolMessage(n, c, m)   == Turn("tool", n, c, <<>>, m)
SystemTurn(m)          == Turn("system", "", "system_prompt", <<>>, m)
UserTurn(m)            == Turn("user", "", "email_content", <<>>, m)

\* tool-call lists one LanguageModel response may carry
ToolCallLists ==
    { <<"send_email_simple">>, <<"search_contact">>,
      <<"send_email_simple", "search_contact">> }

\* what llm.invoke can do: return an AIMessage (content, possibly empty, or
\* tool calls) or raise
LLMResponses ==
    { [raise |-> FALSE, content |-> "answer", tool_calls |-> <<>>],
      [raise |-> FALSE, content |-> "",       tool_calls |-> <<>>],
      [raise |-> TRUE,  content |-> "",       tool_calls |-> <<>>] }
    \cup { [raise |-> FALSE, content |-> "", tool_calls |-> c] : c \in ToolCallLists }

NoSubject == [kind |-> "none", of |-> 0]
NoMail == [to |-> "", subject |-> NoSubject, body |-> "", of |-> 0]

\* the Task channels of a fresh EmailAgent (empty MemorySaver)
FreshTask ==
    [messages |-> <<>>, status |-> "", email_message |-> 0, error |-> "",
     email_replied |-> FALSE, subject |-> NoSubject]

VARIABLES
    processed_emails,   \* system_init._processed_emails
    evicted,            \* the last locked section of on_new_email evicted
    deliveries,         \* calls of on_new_email so far
    wpc,                \* per worker: "idle", "loop" (top of the for loop), "run"
    batch,              \* per worker: the emails argument
    idx,                \* per worker: position of the for loop
    task,               \* per worker: the Task channels of its EmailAgent
    node,               \* per worker: next workflow node, "END", "RAISED" or "none"
    steps,              \* per worker: supersteps of the current invoke
    runs,               \* per message id: EmailAgent.run calls so far
    repliedBefore,      \* message ids of runs that ended with email_replied
    rerun,              \* per worker: the current run is for an id in repliedBefore
    before,             \* per worker: len(messages) when the current run began
    runLLM,             \* per worker: llm.invoke calls of the current run
    llmRaised,          \* per worker: llm.invoke raised in the current run
    llmInput,           \* per worker: conversation of the latest llm.invoke of the run
    llmAt,              \* per worker: len(messages) at that llm.invoke
    runSends,           \* per worker: mails handed to the send service in this run
    lastMail,           \* per worker: last mail the send_email node handed over
    agent               \* per worker: the EmailAgent (with its MemorySaver) that
                        \* its on_new_email call holds, 0 for none; instances are
                        \* numbered in the order of their construction

\* TaskManager with its SchedulerTaskModel and the SchedulerService
VARIABLES
    db,                 \* per task id: the row of scheduler_tasks, "absent",
                        \* "active" or "deleted" (task_status)
    jobs,               \* per task id: jobs of that id the scheduler holds
                        \* (job store and pending list)
    scheduler,          \* SchedulerService.scheduler: "none", "stopped" (built by
                        \* initialize, not started) or "running"
    last_result         \* what the last TaskManager call returned

taskManagerVars == <<db, jobs, scheduler, last_result>>

agentVars == <<processed_emails, evicted, deliveries, wpc, batch, idx, task, node,
               steps, runs, repliedBefore, rerun, before, runLLM, llmRaised,
               llmInput, llmAt, runSends, lastMail, agent, taskManagerVars>>

\* EmailListener (polling path) and the mailbox it watches
VARIABLES
    mail_count,         \* messages that arrived so far: ids 1..mail_count
    unseen,             \* ids the server reports for a search UNSEEN
    lpc,                \* detection thread: "stopped", "poll" (top of the loop),
                        \* "search" (inside receive_unread_emails), "process",
                        \* "sleep", "exited"
    last_uid,           \* EmailListener._last_uid, 0 for None
    new_emails,         \* argument of the pending _process_new_emails call
    futures,            \* what was submitted to _executor, in order
    pending_futures,    \* EmailListener._pending_futures: indexes into futures
    stats,              \* EmailListener._stats
    handed,             \* per id: times it was passed to new_email_callback
    client,             \* _receive_service.client: conn is "no_service" (the service
                        \* is None), "none" (_connection is None), "open", "broken";
                        \* folder: _current_folder is the watched folder
    sessions,           \* sessions that client opened and has not closed
    running,            \* EmailListener._running
    mode,               \* EmailListener.mode
    stop_call,          \* how the call of stop() ended, NoStop before it
    synced              \* ids of the emails the initial sync of start() returned

connVars == <<client, sessions, running, mode, stop_call, synced>>

\* EmailListenerIdle
VARIABLES
    ipc,                \* IdleThread: "stopped", "connect", "retry_sleep",
                        \* "enter_idle", "wait", "handle"
    signal,             \* an EXISTS line of the server is unread on _idle_conn
    processed_uids,     \* EmailListenerIdle._processed_uids
    idle_supported      \* the server's CAPABILITY answer lists IDLE

idleVars == <<ipc, signal, processed_uids, idle_supported>>

listenerVars == <<mail_count, unseen, lpc, last_uid, new_emails, futures,
                  pending_futures, stats, handed, connVars, idleVars>>

vars == <<agentVars, listenerVars>>

\* no TaskManager call has returned yet
NoResult == [op |-> "none", task_id |-> 0, success |-> FALSE, auto_schedule |-> FALSE,
             existed |-> FALSE, loaded |-> {}, failed_tasks |-> {}, in_scheduler |-> {}]

AgentInit ==
    /\ processed_emails = {}
    /\ evicted = FALSE
    /\ deliveries = 0
    /\ wpc = [w \in Workers |-> "idle"]
    /\ batch = [w \in Workers |-> <<>>]
    /\ idx = [w \in Workers |-> 0]
    /\ task = [w \in Workers |-> FreshTask]
    /\ node = [w \in Workers |-> "none"]
    /\ steps = [w \in Workers |-> 0]
    /\ runs = [m \in MoreMsgs |-> 0]
    /\ repliedBefore = {}
    /\ rerun = [w \in Workers |-> FALSE]
    /\ before = [w \in Workers |-> 0]
    /\ runLLM = [w \in Workers |-> 0]
    /\ llmRaised = [w \in Workers |-> FALSE]
    /\ llmInput = [w \in Workers |-> <<>>]
    /\ llmAt = [w \in Workers |-> 0]
    /\ runSends = [w \in Workers |-> 0]
    /\ lastMail = [w \in Workers |-> NoMail]
    /\ agent = [w \in Workers |-> 0]
    /\ db = [id \in TaskIds |-> "absent"]
    /\ jobs = [id \in TaskIds |-> 0]
    /\ scheduler = "none"
    /\ last_result = NoResult

NoStop == [outcome |-> "not_called", in_flight |-> 0]

ListenerInit ==
    /\ mail_count = 0
    /\ unseen = {}
    /\ lpc = "stopped"
    /\ last_uid = 0
    /\ new_emails = <<>>
    /\ futures = <<>>
    /\ pending_futures = {}
    /\ stats = [total_received |-> 0, polling_count |-> 0, processing_tasks |-> 0,
                completed_tasks |-> 0]
    /\ handed = [m \in 1..MaxMail |-> 0]
    /\ client = [conn |-> "no_service", folder |-> FALSE]
    /\ sessions = 0
    /\ running = FALSE
    /\ mode = "stopped"
    /\ stop_call = NoStop
    /\ synced = {}
    /\ ipc = "stopped"
    /\ signal = FALSE
    /\ processed_uids = {}
    /\ idle_supported = TRUE

Init == AgentInit /\ ListenerInit

(***************************************************************************)
(* WrokflowNodes.process_email as a function of the Task state and of what *)
(* llm.invoke does when it is reached.                                     *)
(***************************************************************************)
LastTurn(msgs) == msgs[Len(msgs)]

\* add_messages: the reducer of the messages channel appends
add_messages(left, right) == left \o right

\* process_email_branch without the comparison with master_email: whoever is
\* not the assistant is answered
process_email_branch_any_sender(state) ==
    IF state.email_message = 0 THEN "empty"
    ELSE IF state.email_replied THEN "already_replied"
    ELSE IF Len(state.messages) > 0
            /\ LastTurn(state.messages).name = "send_email_simple" THEN "tool_sent"
    ELSE IF Sender(state.email_message) = assistant_email THEN "self"
    ELSE "master"

\* the branch process_email takes (agent_nodes.py 31-130, in source order)
process_email_branch(state) ==
    IF state.email_message = 0 THEN "empty"
    ELSE IF state.email_replied THEN "already_replied"
    ELSE IF Len(state.messages) > 0
            /\ LastTurn(state.messages).name = "send_email_simple" THEN "tool_sent"
    ELSE IF Sender(state.email_message) = assistant_email THEN "self"
    ELSE IF Sender(state.email_message) = master_email THEN "master"
    ELSE "not_master"

\* the conversation handed to llm.invoke (agent_nodes.py 73-116)
llm_messages(state) ==
    IF Len(state.messages) = 0
    THEN <<SystemTurn(state.email_message), UserTurn(state.email_message)>>
    ELSE state.messages

process_email(state, resp) ==
    LET m == state.email_message
        br == process_email_branch(state)
    IN CASE br = "empty" -> state
         [] br = "already_replied" ->
              [state EXCEPT !.status = "email_proccessed",
                            !.messages = add_messages(@, <<HumanMessage("already_replied", m)>>)]
         [] br = "tool_sent" ->
              [state EXCEPT !.messages = add_messages(@, <<AIMessage("sent_notice", <<>>, m)>>),
                            !.status = "success",
                            !.email_replied = TRUE]
         [] br = "self" ->
              [state EXCEPT !.status = "ignored",
                            !.messages = add_messages(@, <<HumanMessage("ignore_self", m)>>),
                            !.email_replied = FALSE]
         [] br = "master" /\ ~resp.raise ->
              [state EXCEPT !.messages = add_messages(@, <<AIMessage(resp.content, resp.tool_calls, m)>>),
                            !.status = "agent_replied",
                            !.email_replied = FALSE,
                            !.subject = [kind |-> "reply", of |-> m]]
         [] br = "master" /\ resp.raise ->
              [state EXCEPT !.status = "agent_processed_failed",
                            !.error = "llm_error",
                            !.subject = [kind |-> "agent_error", of |-> 0],
                            !.messages = add_messages(@, <<HumanMessage("agent_error_detail", m)>>),
                            !.email_replied = FALSE]
         [] OTHER ->
              [state EXCEPT !.status = "ignored",
                            !.messages = add_messages(@, <<HumanMessage("not_master", m)>>),
                            !.email_replied = FALSE]

\* route_after_process without the test for tool calls: a response that
\* requests tools is handed to send_email like any other
route_after_process_no_tools(state) ==
    IF state.email_replied THEN "mark_as_replied"
    ELSE IF state.status = "ignored" THEN "mark_as_replied"
    ELSE "send_email"

\* email_agent.py 113-136
route_after_process(state) ==
    IF state.email_replied THEN "mark_as_replied"
    ELSE IF state.status = "ignored" THEN "mark_as_replied"
    ELSE IF Len(state.messages) > 0
            /\ LastTurn(state.messages).type = "ai"
            /\ Len(LastTurn(state.messages).tool_calls) > 0 THEN "tools"
    ELSE "send_email"

(***************************************************************************)
(* ToolNode(self.tools): runs every tool call of the last AIMessage and    *)
(* appends one ToolMessage per call, named after the tool.                 *)
(***************************************************************************)
\* results the tool calls can have: send_email_simple reports success or failure
ToolOutcomes(calls) ==
    { r \in [1..Len(calls) -> {"tool_ok", "tool_failed"}] :
        \A i \in 1..Len(calls) : calls[i] # "send_email_simple" => r[i] = "tool_ok" }

tools_node(state, outcome) ==
    LET calls == LastTurn(state.messages).tool_calls
    IN [state EXCEPT !.messages =
          add_messages(@, [i \in 1..Len(calls) |->
                             ToolMessage(calls[i], outcome[i], state.email_message)])]

\* mails the tool calls hand to the send service (email_tool.py 117)
tool_sends(calls) == Cardinality({i \in 1..Len(calls) : calls[i] = "send_email_simple"})

(***************************************************************************)
(* WrokflowNodes.send_email (agent_nodes.py 142-198)                       *)
(***************************************************************************)
\* index of the last AIMessage of the conversation, 0 when there is none
last_ai_index(msgs) ==
    LET S == {i \in 1..Len(msgs) : msgs[i].type = "ai"}
    IN IF S = {} THEN 0 ELSE CHOOSE i \in S : \A j \in S : j <= i

\* a send_email node that answers the sender of the incoming message
send_email_mail_to_sender(state) ==
    LET k == last_ai_index(state.messages)
        content == IF k = 0 THEN "" ELSE state.messages[k].content
    IN [to |-> IF state.email_message = 0 THEN "" ELSE Sender(state.email_message),
        subject |-> state.subject,
        body |-> IF content = "" THEN "placeholder" ELSE content,
        of |-> IF content = "" THEN 0 ELSE state.messages[k].of]

\* the mail send_email composes: (to_email, subject, content)
send_email_mail(state) ==
    LET k == last_ai_index(state.messages)
        content == IF k = 0 THEN "" ELSE state.messages[k].content
    IN [to |-> master_email,
        subject |-> state.subject,
        body |-> IF content = "" THEN "placeholder" ELSE content,
        of |-> IF content = "" THEN 0 ELSE state.messages[k].of]

\* send_email whose failure branches forget the "error" key
send_email_error_lost(state, ok) ==
    LET m == state.email_message
    IN IF ok
       THEN [state EXCEPT !.status = "send_email_success",
                          !.messages = add_messages(@, <<HumanMessage("email_sent", m)>>),
                          !.email_replied = FALSE]
       ELSE [state EXCEPT !.status = "send_email_failed",
                          !.messages = add_messages(@, <<HumanMessage("send_error", m)>>),
                          !.email_replied = FALSE]

\* the state after the node: the send service reports success (ok) or reports
\* failure or raises (agent_nodes.py 169-198)
send_email(state, ok) ==
    LET m == state.email_message
    IN IF ok
       THEN [state EXCEPT !.status = "send_email_success",
                          !.messages = add_messages(@, <<HumanMessage("email_sent", m)>>),
                          !.email_replied = FALSE]
       ELSE [state EXCEPT !.status = "send_email_failed",
                          !.messages = add_messages(@, <<HumanMessage("send_error", m)>>),
                          !.email_replied = FALSE,
                          !.error = "send_error"]

\* WrokflowNodes.mark_as_replied (agent_nodes.py 204-214)
mark_as_replied(state) ==
    [state EXCEPT !.email_replied = TRUE, !.status = "email_proccessed"]

(***************************************************************************)
(* system_init.on_new_email, run by a pool worker.                         *)
(***************************************************************************)
Batches == UNION { [1..n -> Msgs] : n \in 1..MaxBatch }

\* list(_processed_emails)[:500]: a set has no insertion order, so the slice is
\* some HalfCap of its elements
eviction_choices(cache) == { old \in SUBSET cache : Cardinality(old) = HalfCap }

\* cache_after_add with the size test off by one: > 1001 where the code has > 1000
cache_after_add_late(cache, id) ==
    LET added == cache \cup {id}
    IN IF Cardinality(added) > MaxCache + 1
       THEN { added \ old : old \in eviction_choices(added) }
       ELSE { added }

\* the caches the locked section can leave behind for a new id
\* (system_init.py 152-158)
cache_after_add(cache, id) ==
    LET added == cache \cup {id}
    IN IF Cardinality(added) > MaxCache
       THEN { added \ old : old \in eviction_choices(added) }
       ELSE { added }

\* one EmailAgent built when the module is loaded and used by every call
EmailAgent_at_import(made) == 1

\* agent = EmailAgent() in on_new_email: a new instance with a MemorySaver of
\* its own, given the number of instances made before (system_init.py 139,
\* email_agent.py 54-58)
EmailAgent(made) == made + 1

\* a worker picks up a submitted batch: on_new_email(emails), agent = EmailAgent()
on_new_email_call(w, emails) ==
    /\ wpc[w] = "idle"
    /\ deliveries < MaxDeliveries
    /\ deliveries' = deliveries + 1
    /\ agent' = [agent EXCEPT ![w] = EmailAgent(deliveries)]
    /\ wpc' = [wpc EXCEPT ![w] = "loop"]
    /\ batch' = [batch EXCEPT ![w] = emails]
    /\ idx' = [idx EXCEPT ![w] = 1]
    /\ task' = [task EXCEPT ![w] = FreshTask]
    /\ UNCHANGED <<processed_emails, evicted, node, steps, runs, repliedBefore,
                   rerun, before, runLLM, llmRaised, llmInput, llmAt,
                   runSends, lastMail>>
    /\ UNCHANGED taskManagerVars
    /\ UNCHANGED listenerVars

\* one iteration of the for loop whose id is already cached: continue
on_new_email_skip(w) ==
    /\ wpc[w] = "loop"
    /\ idx[w] <= Len(batch[w])
    /\ batch[w][idx[w]] \in processed_emails
    /\ idx' = [idx EXCEPT ![w] = @ + 1]
    /\ evicted' = FALSE
    /\ UNCHANGED <<processed_emails, deliveries, wpc, batch, task, node, steps,
                   runs, repliedBefore, rerun, before, runLLM, llmRaised, llmInput, llmAt,
                   runSends, lastMail, agent>>
    /\ UNCHANGED taskManagerVars
    /\ UNCHANGED listenerVars

\* one iteration for a new id: the locked section, then agent.run(email_msg)
\* up to the call of compiled_workflow.invoke (email_agent.py 176-192)
on_new_email_run(w) ==
    /\ wpc[w] = "loop"
    /\ idx[w] <= Len(batch[w])
    /\ LET m == batch[w][idx[w]]
       IN /\ m \notin processed_emails
          /\ processed_emails' \in cache_after_add(processed_emails, m)
          /\ evicted' = (Cardinality(processed_emails \cup {m}) > MaxCache)
          /\ wpc' = [wpc EXCEPT ![w] = "run"]
          /\ task' = [task EXCEPT ![w].email_message = m, ![w].email_replied = FALSE]
          /\ node' = [node EXCEPT ![w] = "process_email"]
          /\ steps' = [steps EXCEPT ![w] = 0]
          /\ runs' = [runs EXCEPT ![m] = @ + 1]
          /\ rerun' = [rerun EXCEPT ![w] = m \in repliedBefore]
          /\ before' = [before EXCEPT ![w] = Len(task[w].messages)]
          /\ runLLM' = [runLLM EXCEPT ![w] = 0]
          /\ llmRaised' = [llmRaised EXCEPT ![w] = FALSE]
          /\ llmInput' = [llmInput EXCEPT ![w] = <<>>]
          /\ llmAt' = [llmAt EXCEPT ![w] = 0]
          /\ runSends' = [runSends EXCEPT ![w] = 0]
          /\ lastMail' = [lastMail EXCEPT ![w] = NoMail]
    /\ UNCHANGED <<deliveries, batch, idx, repliedBefore, agent>>
    /\ UNCHANGED taskManagerVars
    /\ UNCHANGED listenerVars

\* the for loop is over: on_new_email returns and the agent is dropped
on_new_email_return(w) ==
    /\ wpc[w] = "loop"
    /\ idx[w] > Len(batch[w])
    /\ wpc' = [wpc EXCEPT ![w] = "idle"]
    /\ batch' = [batch EXCEPT ![w] = <<>>]
    /\ idx' = [idx EXCEPT ![w] = 0]
    /\ task' = [task EXCEPT ![w] = FreshTask]
    /\ rerun' = [rerun EXCEPT ![w] = FALSE]
    /\ before' = [before EXCEPT ![w] = 0]
    /\ runLLM' = [runLLM EXCEPT ![w] = 0]
    /\ llmRaised' = [llmRaised EXCEPT ![w] = FALSE]
    /\ llmInput' = [llmInput EXCEPT ![w] = <<>>]
    /\ llmAt' = [llmAt EXCEPT ![w] = 0]
    /\ runSends' = [runSends EXCEPT ![w] = 0]
    /\ lastMail' = [lastMail EXCEPT ![w] = NoMail]
    /\ agent' = [agent EXCEPT ![w] = 0]
    /\ UNCHANGED <<processed_emails, evicted, deliveries, node, steps, runs,
                   repliedBefore>>
    /\ UNCHANGED taskManagerVars
    /\ UNCHANGED listenerVars

(***************************************************************************)
(* The compiled workflow (email_agent.py 99-163), one superstep per action *)
(***************************************************************************)
onNewEmailVars == <<processed_emails, evicted, deliveries, wpc, batch, idx, runs,
                    repliedBefore, rerun, before, agent, taskManagerVars>>

\* resp is what llm.invoke does if this execution of the node reaches it
process_email_step(w, resp) ==
    /\ node[w] = "process_email"
    /\ steps[w] < RecursionLimit
    /\ task' = [task EXCEPT ![w] = process_email(task[w], resp)]
    /\ node' = [node EXCEPT ![w] = route_after_process(task'[w])]
    /\ runLLM' = [runLLM EXCEPT ![w] =
                    IF process_email_branch(task[w]) = "master" THEN @ + 1 ELSE @]
    /\ llmRaised' = [llmRaised EXCEPT ![w] =
                       @ \/ (process_email_branch(task[w]) = "master" /\ resp.raise)]
    /\ llmInput' = [llmInput EXCEPT ![w] =
                      IF process_email_branch(task[w]) = "master"
                      THEN llm_messages(task[w]) ELSE @]
    /\ llmAt' = [llmAt EXCEPT ![w] =
                   IF process_email_branch(task[w]) = "master"
                   THEN Len(task[w].messages) ELSE @]
    /\ steps' = [steps EXCEPT ![w] = @ + 1]
    /\ UNCHANGED <<onNewEmailVars, runSends, lastMail>>
    /\ UNCHANGED listenerVars

tools_step(w) ==
    /\ node[w] = "tools"
    /\ steps[w] < RecursionLimit
    /\ LET calls == LastTurn(task[w].messages).tool_calls
       IN /\ \E outcome \in ToolOutcomes(calls) :
                task' = [task EXCEPT ![w] = tools_node(task[w], outcome)]
          /\ runSends' = [runSends EXCEPT ![w] = @ + tool_sends(calls)]
    /\ node' = [node EXCEPT ![w] = "process_email"]
    /\ steps' = [steps EXCEPT ![w] = @ + 1]
    /\ UNCHANGED <<onNewEmailVars, runLLM, llmRaised, llmInput, llmAt, lastMail>>
    /\ UNCHANGED listenerVars

send_email_step(w) ==
    /\ node[w] = "send_email"
    /\ steps[w] < RecursionLimit
    /\ \E ok \in BOOLEAN : task' = [task EXCEPT ![w] = send_email(task[w], ok)]
    /\ lastMail' = [lastMail EXCEPT ![w] = send_email_mail(task[w])]
    /\ runSends' = [runSends EXCEPT ![w] = @ + 1]
    /\ node' = [node EXCEPT ![w] = "mark_as_replied"]
    /\ steps' = [steps EXCEPT ![w] = @ + 1]
    /\ UNCHANGED <<onNewEmailVars, runLLM, llmRaised, llmInput, llmAt>>
    /\ UNCHANGED listenerVars

mark_as_replied_step(w) ==
    /\ node[w] = "mark_as_replied"
    /\ steps[w] < RecursionLimit
    /\ task' = [task EXCEPT ![w] = mark_as_replied(task[w])]
    /\ node' = [node EXCEPT ![w] = "END"]
    /\ steps' = [steps EXCEPT ![w] = @ + 1]
    /\ UNCHANGED <<onNewEmailVars, runLLM, llmRaised, llmInput, llmAt,
                   runSends, lastMail>>
    /\ UNCHANGED listenerVars

\* recursion_limit supersteps are used up before END: invoke raises
\* GraphRecursionError (email_agent.py 186-192)
recursion_error(w) ==
    /\ node[w] \in {"process_email", "tools", "send_email", "mark_as_replied"}
    /\ steps[w] >= RecursionLimit
    /\ node' = [node EXCEPT ![w] = "RAISED"]
    /\ UNCHANGED <<onNewEmailVars, task, steps, runLLM, llmRaised, llmInput, llmAt,
                   runSends, lastMail>>
    /\ UNCHANGED listenerVars

\* EmailAgent.run returns (the result, or the errors of its except branch) and
\* the for loop of on_new_email goes on
run_return(w) ==
    /\ node[w] \in {"END", "RAISED"}
    /\ repliedBefore' = IF node[w] = "END" /\ task[w].email_replied
                        THEN repliedBefore \cup {task[w].email_message}
                        ELSE repliedBefore
    /\ node' = [node EXCEPT ![w] = "none"]
    /\ wpc' = [wpc EXCEPT ![w] = "loop"]
    /\ idx' = [idx EXCEPT ![w] = @ + 1]
    /\ UNCHANGED <<processed_emails, evicted, deliveries, batch, task, steps, runs,
                   rerun, before, runLLM, llmRaised, llmInput, llmAt,
                   runSends, lastMail, agent>>
    /\ UNCHANGED taskManagerVars
    /\ UNCHANGED listenerVars

\* what one pool worker can do, with a LanguageModel answering from responses
worker_step(w, responses) ==
    \/ \E emails \in Batches : on_new_email_call(w, emails)
    \/ on_new_email_skip(w)
    \/ on_new_email_run(w)
    \/ on_new_email_return(w)
    \/ \E resp \in responses : process_email_step(w, resp)
    \/ tools_step(w)
    \/ send_email_step(w)
    \/ mark_as_replied_step(w)
    \/ recursion_error(w)
    \/ run_return(w)

\* one worker runs the callback, the LanguageModel is unconstrained
Next == worker_step(1, LLMResponses)

Spec == Init /\ [][Next]_vars

\* a LanguageModel that always answers with plain content
PlainResponses == { r \in LLMResponses : ~r.raise /\ r.tool_calls = <<>> }

\* the pool workers run on_new_email side by side (ThreadPoolExecutor of the
\* listener, max_workers > 1); the LanguageModel answers with plain content, so
\* the tools node and the recursion limit are never reached
NextPool ==
    \E w \in Workers :
        \/ \E emails \in Batches : on_new_email_call(w, emails)
        \/ on_new_email_skip(w)
        \/ on_new_email_run(w)
        \/ on_new_email_return(w)
        \/ \E resp \in PlainResponses : process_email_step(w, resp)
        \/ send_email_step(w)
        \/ mark_as_replied_step(w)
        \/ run_return(w)

SpecPool == Init /\ [][NextPool]_vars

\* batches that can hold two different messages of the master
MasterBatches == UNION { [1..n -> MoreMsgs] : n \in 1..MaxBatch }

\* one worker, batches out of MoreMsgs; the LanguageModel answers without tool
\* calls or raises
NextBatch ==
    \/ \E emails \in MasterBatches : on_new_email_call(1, emails)
    \/ on_new_email_skip(1)
    \/ on_new_email_run(1)
    \/ on_new_email_return(1)
    \/ \E resp \in { r \in LLMResponses : r.tool_calls = <<>> } : process_email_step(1, resp)
    \/ send_email_step(1)
    \/ mark_as_replied_step(1)
    \/ run_return(1)

SpecBatch == Init /\ [][NextBatch]_vars

\* EmailAgent().run(email) called by a caller of its own, email being a message
\* or an empty dict (0); run passes a dict on as it is (email_agent.py 176-192)
agent_run(w, email) ==
    /\ wpc[w] = "idle"
    /\ deliveries < MaxDeliveries
    /\ deliveries' = deliveries + 1
    /\ agent' = [agent EXCEPT ![w] = EmailAgent(deliveries)]
    /\ wpc' = [wpc EXCEPT ![w] = "run"]
    /\ batch' = [batch EXCEPT ![w] = <<email>>]
    /\ idx' = [idx EXCEPT ![w] = 1]
    /\ task' = [task EXCEPT ![w] = [FreshTask EXCEPT !.email_message = email]]
    /\ node' = [node EXCEPT ![w] = "process_email"]
    /\ steps' = [steps EXCEPT ![w] = 0]
    /\ runs' = IF email = 0 THEN runs ELSE [runs EXCEPT ![email] = @ + 1]
    /\ UNCHANGED <<processed_emails, evicted, repliedBefore, rerun, before, runLLM,
                   llmRaised, llmInput, llmAt, runSends, lastMail>>
    /\ UNCHANGED taskManagerVars
    /\ UNCHANGED listenerVars

\* run is called directly; one caller, the LanguageModel is unconstrained
NextDirect ==
    \/ \E email \in {0} \cup Msgs : agent_run(1, email)
    \/ \E resp \in LLMResponses : process_email_step(1, resp)
    \/ tools_step(1)
    \/ send_email_step(1)
    \/ mark_as_replied_step(1)
    \/ recursion_error(1)
    \/ run_return(1)
    \/ on_new_email_return(1)

SpecDirect == Init /\ [][NextDirect]_vars

(***************************************************************************)
(* TaskManager: scheduled tasks kept in the database (SchedulerTaskModel)  *)
(* and as jobs of the APScheduler behind SchedulerService.  The calls come *)
(* one after another.                                                      *)
(***************************************************************************)
frameTasks ==
    /\ UNCHANGED <<processed_emails, evicted, deliveries, wpc, batch, idx, task, node,
                   steps, runs, repliedBefore, rerun, before, runLLM, llmRaised,
                   llmInput, llmAt, runSends, lastMail, agent>>
    /\ UNCHANGED listenerVars

\* SchedulerService.initialize(): the BackgroundScheduler is built
scheduler_initialize ==
    /\ scheduler = "none"
    /\ scheduler' = "stopped"
    /\ UNCHANGED <<db, jobs, last_result>>
    /\ frameTasks

\* SchedulerService.start() (scheduler_service.py 163-171): initialize if
\* needed, then scheduler.start(), which moves the pending jobs to the store
scheduler_start ==
    /\ scheduler # "running"
    /\ \A id \in TaskIds : jobs[id] <= 1
    /\ scheduler' = "running"
    /\ UNCHANGED <<db, jobs, last_result>>
    /\ frameTasks

\* self.scheduler_service.scheduler and scheduler.get_job(task_id)
get_job(sch, js, id) == sch # "none" /\ js[id] > 0

\* schedule_once .. schedule_cron: parse the stored times (ok), then
\* scheduler.add_job(id = task_id) without replace_existing; every exception
\* makes the method return False.  There is no scheduler before initialize; a
\* scheduler that is not started puts the job on its pending list unchecked, a
\* running one refuses an id it already holds (scheduler_service.py 267-288)
schedule_job(sch, js, id, ok) ==
    CASE ~ok \/ sch = "none" -> [success |-> FALSE, jobs |-> js]
      [] sch = "stopped" -> [success |-> TRUE, jobs |-> [js EXCEPT ![id] = @ + 1]]
      [] sch = "running" /\ js[id] > 0 -> [success |-> FALSE, jobs |-> js]
      [] OTHER -> [success |-> TRUE, jobs |-> [js EXCEPT ![id] = 1]]

\* _schedule_task_from_db without the look at the scheduler's jobs
schedule_task_from_db_unguarded(sch, d, js, id, ok) ==
    IF d[id] # "active" \/ ~ok
    THEN [success |-> FALSE, jobs |-> js, found |-> FALSE]
    ELSE [success |-> schedule_job(sch, js, id, ok).success,
          jobs |-> schedule_job(sch, js, id, ok).jobs, found |-> FALSE]

\* _schedule_task_from_db (task_manager.py 563-696): a job of that id in the
\* scheduler ends the call with success (found); otherwise the row is read
\* (get_task, None for a missing or deleted row or a failed query) and the job
\* is added; ok says that the query and the parsing of the row succeed
schedule_task_from_db(sch, d, js, id, ok) ==
    IF get_job(sch, js, id)
    THEN [success |-> TRUE, jobs |-> js, found |-> TRUE]
    ELSE IF d[id] # "active" \/ ~ok
    THEN [success |-> FALSE, jobs |-> js, found |-> FALSE]
    ELSE [success |-> schedule_job(sch, js, id, ok).success,
          jobs |-> schedule_job(sch, js, id, ok).jobs, found |-> FALSE]

\* add_email_task (task_manager.py 118-185): task_exists, then add_task
\* (False for a row of any status or a failed insert: insert_ok), then with
\* auto_schedule _schedule_task_from_db, and on its failure a hard delete of the
\* row whose result (delete_ok) is not looked at
add_email_task(id, auto_schedule, insert_ok, ok, delete_ok) ==
    LET added == [db EXCEPT ![id] = "active"]
        r == schedule_task_from_db(scheduler, added, jobs, id, ok)
        result(success) == [op |-> "add", task_id |-> id, success |-> success,
                            auto_schedule |-> auto_schedule,
                            existed |-> db[id] # "absent",
                            loaded |-> {}, failed_tasks |-> {}, in_scheduler |-> {}]
    IN /\ IF db[id] # "absent" \/ ~insert_ok
          THEN /\ UNCHANGED <<db, jobs>>
               /\ last_result' = result(FALSE)
          ELSE IF auto_schedule /\ ~r.success
          THEN /\ db' = IF delete_ok THEN db ELSE added
               /\ jobs' = r.jobs
               /\ last_result' = result(FALSE)
          ELSE /\ db' = added
               /\ jobs' = IF auto_schedule THEN r.jobs ELSE jobs
               /\ last_result' = result(TRUE)
       /\ UNCHANGED scheduler
       /\ frameTasks

\* remove_task (task_manager.py 461-505): the job is removed from the
\* scheduler, then the row is deleted or marked deleted; delete_ok is the
\* result of the database call
remove_task(id, soft_delete, delete_ok) ==
    /\ jobs' = IF scheduler # "none" THEN [jobs EXCEPT ![id] = 0] ELSE jobs
    /\ db' = IF db[id] # "absent" /\ delete_ok
             THEN [db EXCEPT ![id] = IF soft_delete THEN "deleted" ELSE "absent"]
             ELSE db
    /\ last_result' = [op |-> "remove", task_id |-> id,
                       success |-> (db[id] # "absent" /\ delete_ok),
                       auto_schedule |-> FALSE, existed |-> db[id] # "absent",
                       loaded |-> {}, failed_tasks |-> {}, in_scheduler |-> {}]
    /\ UNCHANGED scheduler
    /\ frameTasks

RECURSIVE load_tasks(_, _, _, _, _)
\* the for loop of load_tasks_from_db over active_tasks (task_manager.py
\* 522-541): acc holds the scheduler's jobs, the failed ids and the ids whose
\* job was found in the scheduler
load_tasks(ids, sch, d, acc, oks) ==
    IF ids = {} THEN acc
    ELSE LET id == CHOOSE i \in ids : \A j \in ids : i <= j
             r == schedule_task_from_db(sch, d, acc.jobs, id, id \in oks)
         IN load_tasks(ids \ {id}, sch, d,
                       [jobs |-> r.jobs,
                        failed_tasks |-> IF r.success THEN acc.failed_tasks
                                         ELSE acc.failed_tasks \cup {id},
                        in_scheduler |-> IF r.found THEN acc.in_scheduler \cup {id}
                                         ELSE acc.in_scheduler],
                       oks)

\* load_tasks_from_db (task_manager.py 508-559): the active rows are read (an
\* empty list when the query fails: read_ok) and scheduled one by one; oks are
\* the ids whose row can be read and parsed by _schedule_task_from_db
load_tasks_from_db(read_ok, oks) ==
    LET active_tasks == IF read_ok THEN { id \in TaskIds : db[id] = "active" } ELSE {}
        r == load_tasks(active_tasks, scheduler, db,
                        [jobs |-> jobs, failed_tasks |-> {}, in_scheduler |-> {}], oks)
    IN /\ jobs' = r.jobs
       /\ last_result' = [op |-> "load", task_id |-> 0, success |-> TRUE,
                          auto_schedule |-> FALSE, existed |-> FALSE,
                          loaded |-> active_tasks \ r.failed_tasks,
                          failed_tasks |-> r.failed_tasks,
                          in_scheduler |-> r.in_scheduler]
       /\ UNCHANGED <<db, scheduler>>
       /\ frameTasks

NextTasks ==
    \/ scheduler_initialize
    \/ scheduler_start
    \/ \E id \in TaskIds, auto_schedule, insert_ok, ok, delete_ok \in BOOLEAN :
           add_email_task(id, auto_schedule, insert_ok, ok, delete_ok)
    \/ \E id \in TaskIds, soft_delete, delete_ok \in BOOLEAN :
           remove_task(id, soft_delete, delete_ok)
    \/ \E read_ok \in BOOLEAN, oks \in SUBSET TaskIds : load_tasks_from_db(read_ok, oks)

SpecTasks == Init /\ [][NextTasks]_vars

(***************************************************************************)
(* The watched mailbox.  Message ids are IMAP sequence numbers: the n-th   *)
(* message to arrive has id n.  A message leaves the UNSEEN search result  *)
(* when a STORE +FLAGS \Seen for it succeeds.                              *)
(***************************************************************************)
\* count of receive_unread_emails in _run_polling_mode_safe
POLL_COUNT == 10
\* initial_sync_count of polling_listener
INITIAL_SYNC_COUNT == 30
\* max_workers of the listener's ThreadPoolExecutor
MAX_WORKERS == 3

Max(S) == CHOOSE x \in S : \A y \in S : y <= x

\* email_ids[-count:]: the count largest ids of a search result
last_ids(ids, count) == { i \in ids : Cardinality({ j \in ids : j > i }) < count }

RECURSIVE newest_first(_)
\* reversed(email_ids): the ids as a list, newest first
newest_first(ids) ==
    IF ids = {} THEN <<>> ELSE <<Max(ids)>> \o newest_first(ids \ {Max(ids)})

\* ReceiveEmailsService.receive_emails when the search succeeds: the ids of the
\* result's emails, given the ids whose fetch succeeds (a failed fetch is
\* skipped, receive_emails_service.py 372-392)
receive_emails(found, count, fetch_ok) == newest_first(last_ids(found, count) \cap fetch_ok)

\* the filter of _run_polling_mode_safe (email_listener.py 430-434)
filter_new(emails, last) == SelectSeq(emails, LAMBDA e : e # last)

Range(seq) == { seq[i] : i \in 1..Len(seq) }

\* a message is delivered to the folder; a session that has the folder
\* selected is sent an untagged EXISTS
mail_arrives ==
    /\ mail_count < MaxMail
    /\ mail_count' = mail_count + 1
    /\ unseen' = unseen \cup {mail_count + 1}
    /\ signal' = IF ipc \in {"enter_idle", "wait", "handle"} THEN TRUE ELSE signal
    /\ UNCHANGED <<lpc, last_uid, new_emails, futures, pending_futures, stats, handed>>
    /\ UNCHANGED <<ipc, processed_uids, idle_supported>>
    /\ UNCHANGED connVars
    /\ UNCHANGED agentVars

(***************************************************************************)
(* IMAPClient of the listener's ReceiveEmailsService.  Each operator gives *)
(* the outcomes a call can have: the client afterwards, whether the call   *)
(* succeeded, and how many sessions it opened.                             *)
(***************************************************************************)
Outcome(cl, ok, opened) == [cl |-> cl, ok |-> ok, opened |-> opened]

\* the connection property (email_client.py 91-113): a missing connection is
\* created; a connection whose noop raises IMAP4.error is replaced by a new one
\* without being closed, and _current_folder is reset; _create_connection may
\* raise, and so may noop with another exception
connection(cl) ==
    CASE cl.conn = "none" ->
            { Outcome([cl EXCEPT !.conn = "open"], TRUE, 1), Outcome(cl, FALSE, 0) }
      [] cl.conn = "open" -> { Outcome(cl, TRUE, 0) }
      [] cl.conn = "broken" ->
            { Outcome([conn |-> "open", folder |-> FALSE], TRUE, 1),
              Outcome(cl, FALSE, 0) }
      [] OTHER -> { Outcome(cl, FALSE, 0) }

\* select_folder (email_client.py 115-148): nothing to do when the folder is
\* the current one, otherwise SELECT on the connection
select_folder(cl) ==
    IF cl.folder THEN { Outcome(cl, TRUE, 0) }
    ELSE UNION { IF c.ok
                 THEN { Outcome([c.cl EXCEPT !.folder = TRUE], TRUE, c.opened),
                        Outcome([c.cl EXCEPT !.folder = FALSE], FALSE, c.opened) }
                 ELSE { Outcome([c.cl EXCEPT !.folder = FALSE], FALSE, c.opened) }
               : c \in connection(cl) }

\* search_emails, fetch_email and store_flags: select_folder, then the command
\* on self.connection; on a connection that was just replaced no folder is
\* selected and the command is refused
client_command(cl) ==
    UNION { IF ~f.ok THEN { f }
            ELSE UNION { IF c.ok /\ c.cl.folder
                         THEN { Outcome(c.cl, TRUE, f.opened + c.opened),
                                Outcome(c.cl, FALSE, f.opened + c.opened) }
                         ELSE { Outcome(c.cl, FALSE, f.opened + c.opened) }
                       : c \in connection(f.cl) }
          : f \in select_folder(cl) }

\* self._receive_service = ReceiveEmailsService() when it is None
ensure_service(cl) ==
    IF cl.conn = "no_service" THEN [conn |-> "none", folder |-> FALSE] ELSE cl

\* the server or the network ends the session the client holds
session_breaks ==
    /\ client.conn = "open"
    /\ sessions < MaxSessions
    /\ client' = [client EXCEPT !.conn = "broken"]
    /\ UNCHANGED <<mail_count, unseen, lpc, last_uid, new_emails, futures,
                   pending_futures, stats, handed>>
    /\ UNCHANGED <<sessions, running, mode, stop_call, synced>>
    /\ UNCHANGED idleVars
    /\ UNCHANGED agentVars

(***************************************************************************)
(* EmailListener: start() and the detection thread in polling mode.        *)
(***************************************************************************)
\* start(): the initial sync sets _last_uid to the newest message fetched, if
\* the sync succeeds and finds any (email_listener.py 124-143).  The fetch is a
\* FETCH RFC822, on which a server may set \Seen itself: flagged.
listener_start(o, fetch_ok, flagged) ==
    /\ lpc = "stopped"
    /\ ~running
    /\ o \in client_command(ensure_service(client))
    /\ flagged \subseteq fetch_ok
    /\ o.ok \/ fetch_ok = {}
    /\ client' = o.cl
    /\ sessions' = sessions + o.opened
    /\ unseen' = unseen \ flagged
    /\ LET emails == receive_emails(1..mail_count, INITIAL_SYNC_COUNT, fetch_ok)
       IN /\ last_uid' = IF o.ok /\ emails # <<>> THEN emails[1] ELSE last_uid
          /\ synced' = IF o.ok THEN Range(emails) ELSE {}
    /\ running' = TRUE
    /\ mode' = "polling"
    /\ lpc' = "poll"
    /\ UNCHANGED <<mail_count, new_emails, futures, pending_futures, stats, handed,
                   stop_call>>
    /\ UNCHANGED idleVars
    /\ UNCHANGED agentVars

\* _running is true at the top of the loop of _run_listener: the thread enters
\* _run_polling_mode_safe and calls receive_unread_emails, whose search and
\* fetch commands go out on the service's client (email_listener.py 212-423)
poll_begins ==
    /\ lpc = "poll"
    /\ running
    /\ lpc' = "search"
    /\ UNCHANGED <<mail_count, unseen, last_uid, new_emails, futures,
                   pending_futures, stats, handed>>
    /\ UNCHANGED connVars
    /\ UNCHANGED idleVars
    /\ UNCHANGED agentVars

\* receive_unread_emails reports success = false: a warning, then the sleep
poll_fails(o) ==
    /\ lpc = "search"
    /\ o \in client_command(ensure_service(client))
    /\ ~o.ok
    /\ client' = o.cl
    /\ sessions' = sessions + o.opened
    /\ lpc' = "sleep"
    /\ UNCHANGED <<mail_count, unseen, last_uid, new_emails, futures,
                   pending_futures, stats, handed>>
    /\ UNCHANGED <<running, mode, stop_call, synced>>
    /\ UNCHANGED idleVars
    /\ UNCHANGED agentVars

\* receive_unread_emails succeeds; the new mails are those whose id differs from
\* _last_uid, and _last_uid becomes the first of them (email_listener.py
\* 423-440); flagged are the fetched messages the server marks \Seen on FETCH
poll_receives(o, fetch_ok, flagged) ==
    /\ lpc = "search"
    /\ stats.polling_count < MaxPolls
    /\ o \in client_command(ensure_service(client))
    /\ o.ok
    /\ client' = o.cl
    /\ sessions' = sessions + o.opened
    /\ flagged \subseteq fetch_ok \cap last_ids(unseen, POLL_COUNT)
    /\ unseen' = unseen \ flagged
    /\ LET emails == receive_emails(unseen, POLL_COUNT, fetch_ok)
           found == filter_new(emails, last_uid)
       IN /\ new_emails' = found
          /\ last_uid' = IF found # <<>> THEN found[1] ELSE last_uid
          /\ lpc' = IF found # <<>> THEN "process" ELSE "sleep"
    /\ stats' = [stats EXCEPT !.polling_count = @ + 1]
    /\ UNCHANGED <<mail_count, futures, pending_futures, handed>>
    /\ UNCHANGED <<running, mode, stop_call, synced>>
    /\ UNCHANGED idleVars
    /\ UNCHANGED agentVars

\* submit with a pool that takes a batch only when no earlier one is unfinished
submit_blocks_while_busy(fs) == \E f \in 1..Len(fs) : fs[f].st # "done"

\* whether self._executor.submit has to wait before it returns, given the
\* futures submitted so far: the pool queues the work item and returns
\* (email_listener.py 606-611)
submit_blocks(fs) == FALSE

\* a pool that refuses new work from the moment stop() is called
pool_shut_down_on_stop(sc) == sc.outcome # "not_called"

\* whether self._executor refuses a submit with RuntimeError: only after its
\* shutdown was carried out by stop() (email_listener.py 174-182); the pool is
\* created by start() before the thread runs, so it is never missing
pool_shut_down(sc) == sc.outcome = "returned"

\* _process_new_emails: store_flags on the service's client marks the ids in
\* marked as \Seen (none of them when it fails), then the batch is submitted to
\* the pool as one future, noted with the value _running has at that moment
\* (email_listener.py 555-618); a submit the pool
\* refuses raises into the except branch of _run_polling_mode_safe, which
\* closes the client and drops the service before the waits (452-471)
process_new_emails(o, marked) ==
    /\ lpc = "process"
    /\ ~submit_blocks(futures)
    /\ o \in client_command(client)
    /\ o.ok \/ marked = {}
    /\ unseen' = unseen \ marked
    /\ IF pool_shut_down(stop_call)
       THEN /\ client' = [conn |-> "no_service", folder |-> FALSE]
            /\ sessions' = IF o.cl.conn \in {"open", "broken"}
                           THEN sessions + o.opened - 1 ELSE sessions + o.opened
            /\ stats' = [stats EXCEPT !.total_received = @ + Len(new_emails)]
            /\ UNCHANGED <<futures, pending_futures>>
       ELSE /\ client' = o.cl
            /\ sessions' = sessions + o.opened
            /\ futures' = Append(futures, [emails |-> new_emails, st |-> "queued",
                                           raised |-> FALSE, exception |-> FALSE,
                                           running |-> running])
            /\ pending_futures' = pending_futures \cup {Len(futures) + 1}
            /\ stats' = [stats EXCEPT !.total_received = @ + Len(new_emails),
                                      !.processing_tasks = Cardinality(pending_futures')]
    /\ new_emails' = <<>>
    /\ lpc' = "sleep"
    /\ UNCHANGED <<mail_count, last_uid, handed>>
    /\ UNCHANGED <<running, mode, stop_call, synced>>
    /\ UNCHANGED idleVars
    /\ UNCHANGED agentVars

\* the polling interval is over
poll_sleep_over ==
    /\ lpc = "sleep"
    /\ running
    /\ lpc' = "poll"
    /\ UNCHANGED <<mail_count, unseen, last_uid, new_emails, futures,
                   pending_futures, stats, handed>>
    /\ UNCHANGED connVars
    /\ UNCHANGED idleVars
    /\ UNCHANGED agentVars

\* _running is false at the top of the loop of _run_listener or in the sleep
\* loop: the thread leaves _run_listener
thread_exits ==
    /\ lpc \in {"poll", "sleep"}
    /\ ~running
    /\ lpc' = "exited"
    /\ UNCHANGED <<mail_count, unseen, last_uid, new_emails, futures,
                   pending_futures, stats, handed>>
    /\ UNCHANGED connVars
    /\ UNCHANGED idleVars
    /\ UNCHANGED agentVars

\* a pool worker starts _execute_callback(emails): new_email_callback(emails)
execute_callback(f) ==
    /\ futures[f].st = "queued"
    /\ Cardinality({ g \in 1..Len(futures) : futures[g].st = "running" }) < MAX_WORKERS
    /\ futures' = [futures EXCEPT ![f].st = "running"]
    /\ handed' = [m \in 1..MaxMail |->
                    IF m \in Range(futures[f].emails) THEN handed[m] + 1 ELSE handed[m]]
    /\ UNCHANGED <<mail_count, unseen, lpc, last_uid, new_emails, pending_futures,
                   stats>>
    /\ UNCHANGED connVars
    /\ UNCHANGED idleVars
    /\ UNCHANGED agentVars

\* _execute_callback without its try/except: what the callback raises becomes
\* the exception of the future
future_exception_uncaught(raised) == raised

\* whether the future of _execute_callback ends with an exception, given that
\* new_email_callback raised: the except branch logs it and the method returns
\* (email_listener.py 627-631)
future_exception(raised) == FALSE

\* the callback returned or raised: the future is done and its done-callback
\* _on_task_complete runs (email_listener.py 633-655)
on_task_complete(f, raised) ==
    /\ futures[f].st = "running"
    /\ futures' = [futures EXCEPT ![f].st = "done", ![f].raised = raised,
                                  ![f].exception = future_exception(raised)]
    /\ pending_futures' = pending_futures \ {f}
    /\ stats' = [stats EXCEPT !.processing_tasks = Cardinality(pending_futures'),
                              !.completed_tasks = @ + 1]
    /\ UNCHANGED <<mail_count, unseen, lpc, last_uid, new_emails, handed>>
    /\ UNCHANGED connVars
    /\ UNCHANGED idleVars
    /\ UNCHANGED agentVars

\* a shutdown call that is accepted and returns
executor_shutdown_returns == "returned"

\* self._executor.shutdown(wait=True, timeout=30): ThreadPoolExecutor.shutdown
\* takes wait and cancel_futures only, the call raises TypeError
executor_shutdown == "TypeError"

\* stop() (email_listener.py 165-203): _running is cleared, then the pool is
\* shut down, the service's client closed, the thread joined and the mode set;
\* an exception of shutdown leaves stop() before all that
listener_stop ==
    /\ running
    /\ running' = FALSE
    /\ IF executor_shutdown = "TypeError"
       THEN /\ stop_call' = [outcome |-> "TypeError",
                             in_flight |-> Cardinality(pending_futures)]
            /\ UNCHANGED <<client, sessions, mode>>
       ELSE /\ stop_call' = [outcome |-> "returned",
                             in_flight |-> Cardinality(pending_futures)]
            /\ client' = [conn |-> "no_service", folder |-> FALSE]
            /\ sessions' = IF client.conn \in {"open", "broken"}
                           THEN sessions - 1 ELSE sessions
            /\ mode' = "stopped"
    /\ UNCHANGED <<mail_count, unseen, lpc, last_uid, new_emails, futures,
                   pending_futures, stats, handed, synced>>
    /\ UNCHANGED idleVars
    /\ UNCHANGED agentVars

NextListener ==
    \/ mail_arrives
    \/ session_breaks
    \/ \E o \in client_command(ensure_service(client)) :
           \E fetch_ok \in SUBSET (1..mail_count) :
               \E flagged \in SUBSET (fetch_ok \cap unseen) :
                   listener_start(o, fetch_ok, flagged)
    \/ poll_begins
    \/ \E o \in client_command(ensure_service(client)) : poll_fails(o)
    \/ \E o \in client_command(ensure_service(client)) :
           \E fetch_ok \in SUBSET unseen :
               \E flagged \in SUBSET fetch_ok : poll_receives(o, fetch_ok, flagged)
    \/ \E o \in client_command(client) :
           \E marked \in SUBSET Range(new_emails) : process_new_emails(o, marked)
    \/ poll_sleep_over
    \/ thread_exits
    \/ \E f \in 1..Len(futures) : execute_callback(f)
    \/ \E f \in 1..Len(futures), raised \in BOOLEAN : on_task_complete(f, raised)
    \/ listener_stop

SpecListener == Init /\ [][NextListener]_vars

(***************************************************************************)
(* The bookkeeping of the pool, statement by statement: the end of         *)
(* _process_new_emails on the detection thread (email_listener.py 606-614) *)
(* and _on_task_complete on the thread that finishes a future (641-646).   *)
(* A future carries the position of both: det for the detection thread     *)
(* ("registered", "len_read", "written"), st for the worker and the        *)
(* callback ("queued", "running", "finished", "removed", "len_read",       *)
(* "written", "count_read", "done"), with the values they have read.       *)
(***************************************************************************)
counterVars == <<futures, pending_futures, stats>>

counterFrame ==
    /\ UNCHANGED <<mail_count, unseen, lpc, last_uid, new_emails, handed>>
    /\ UNCHANGED connVars
    /\ UNCHANGED idleVars
    /\ UNCHANGED agentVars

\* the detection thread is between two calls of _process_new_emails
DetectionFree ==
    \A f \in 1..Len(futures) : futures[f].det = "written"

\* future = self._executor.submit(...); self._pending_futures.append(future)
\* (607-608); the done-callback is not registered yet
submit_and_append ==
    /\ Len(futures) < MaxSubmits
    /\ DetectionFree
    /\ futures' = Append(futures, [emails |-> <<Len(futures) + 1>>, st |-> "queued",
                                   raised |-> FALSE, exception |-> FALSE,
                                   det |-> "appended", inline |-> FALSE,
                                   det_len |-> 0, len |-> 0, count |-> 0])
    /\ pending_futures' = pending_futures \cup {Len(futures) + 1}
    /\ UNCHANGED stats
    /\ counterFrame

\* a pool worker takes the work item and runs _execute_callback
worker_runs(f) ==
    /\ futures[f].st = "queued"
    /\ Cardinality({ g \in 1..Len(futures) : futures[g].st = "running" }) < MAX_WORKERS
    /\ futures' = [futures EXCEPT ![f].st = "running"]
    /\ UNCHANGED <<pending_futures, stats>>
    /\ counterFrame

\* _execute_callback returns: the future is finished, its done-callbacks are due
worker_finishes(f, raised) ==
    /\ futures[f].st = "running"
    /\ futures' = [futures EXCEPT ![f].st = "finished", ![f].raised = raised,
                                  ![f].exception = future_exception(raised)]
    /\ UNCHANGED <<pending_futures, stats>>
    /\ counterFrame

\* future.add_done_callback(self._on_task_complete) (611): a future that is
\* finished already has its callback run here, on the detection thread
add_done_callback(f) ==
    /\ futures[f].det = "appended"
    /\ futures' = [futures EXCEPT ![f].det = "registered",
                                  ![f].inline = (futures[f].st = "finished")]
    /\ UNCHANGED <<pending_futures, stats>>
    /\ counterFrame

\* the callback of f may take a step: it is registered and the future finished
CallbackDue(f) == futures[f].det # "appended"

\* _on_task_complete 641-642: the future is taken off _pending_futures
callback_removes(f) ==
    /\ CallbackDue(f)
    /\ futures[f].st = "finished"
    /\ futures' = [futures EXCEPT ![f].st = "removed"]
    /\ pending_futures' = pending_futures \ {f}
    /\ UNCHANGED stats
    /\ counterFrame

\* 645, right-hand side: len(self._pending_futures)
callback_reads_len(f) ==
    /\ futures[f].st = "removed"
    /\ futures' = [futures EXCEPT ![f].st = "len_read",
                                  ![f].len = Cardinality(pending_futures)]
    /\ UNCHANGED <<pending_futures, stats>>
    /\ counterFrame

\* 645, the store into _stats['processing_tasks']
callback_writes_len(f) ==
    /\ futures[f].st = "len_read"
    /\ futures' = [futures EXCEPT ![f].st = "written"]
    /\ stats' = [stats EXCEPT !.processing_tasks = futures[f].len]
    /\ UNCHANGED pending_futures
    /\ counterFrame

\* 646, the load of _stats['completed_tasks']
callback_reads_count(f) ==
    /\ futures[f].st = "written"
    /\ futures' = [futures EXCEPT ![f].st = "count_read",
                                  ![f].count = stats.completed_tasks]
    /\ UNCHANGED <<pending_futures, stats>>
    /\ counterFrame

\* 646, the store of the incremented value; the callback is over
callback_writes_count(f) ==
    /\ futures[f].st = "count_read"
    /\ futures' = [futures EXCEPT ![f].st = "done"]
    /\ stats' = [stats EXCEPT !.completed_tasks = futures[f].count + 1]
    /\ UNCHANGED pending_futures
    /\ counterFrame

\* _process_new_emails 614, right-hand side, once a callback that ran on the
\* detection thread itself is over
detection_reads_len(f) ==
    /\ futures[f].det = "registered"
    /\ futures[f].inline => futures[f].st = "done"
    /\ futures' = [futures EXCEPT ![f].det = "len_read",
                                  ![f].det_len = Cardinality(pending_futures)]
    /\ UNCHANGED <<pending_futures, stats>>
    /\ counterFrame

\* 614, the store into _stats['processing_tasks']; _process_new_emails returns
detection_writes_len(f) ==
    /\ futures[f].det = "len_read"
    /\ futures' = [futures EXCEPT ![f].det = "written"]
    /\ stats' = [stats EXCEPT !.processing_tasks = futures[f].det_len]
    /\ UNCHANGED pending_futures
    /\ counterFrame

NextCounters ==
    \/ submit_and_append
    \/ \E f \in 1..Len(futures) : worker_runs(f)
    \/ \E f \in 1..Len(futures), raised \in BOOLEAN : worker_finishes(f, raised)
    \/ \E f \in 1..Len(futures) : add_done_callback(f)
    \/ \E f \in 1..Len(futures) : callback_removes(f)
    \/ \E f \in 1..Len(futures) : callback_reads_len(f)
    \/ \E f \in 1..Len(futures) : callback_writes_len(f)
    \/ \E f \in 1..Len(futures) : callback_reads_count(f)
    \/ \E f \in 1..Len(futures) : callback_writes_count(f)
    \/ \E f \in 1..Len(futures) : detection_reads_len(f)
    \/ \E f \in 1..Len(futures) : detection_writes_len(f)

SpecCounters == Init /\ [][NextCounters]_vars

(***************************************************************************)
(* EmailListenerIdle: start() and IdleThread (_run_loop).  Message ids and *)
(* UIDs are taken to coincide, as in a folder nothing was ever expunged    *)
(* from.                                                                   *)
(***************************************************************************)
\* IdleConfig.initial_sync_count (10), scaled with the cap of _processed_uids
\* (1000): both count ids, and the first stays below the second
IdleSyncCount == HalfCap

\* ReceiveEmailsService has no method receive_single_email_by_uid: the call in
\* _handle_new_emails raises AttributeError
receive_single_email_by_uid(uid) == "AttributeError"

\* the trim of _processed_uids: 500 ids of list(set), whichever order that has
trim_choices(cache) ==
    IF Cardinality(cache) > MaxCache
    THEN { keep \in SUBSET cache : Cardinality(keep) = HalfCap }
    ELSE { cache }

IdleThreadVars == <<mail_count, lpc, last_uid, new_emails, futures, pending_futures,
                    stats, handed, connVars, idle_supported>>

\* start(): _initial_sync records the unread messages as processed, then the
\* thread is started; supported tells what kind of server is met
idle_start(sync_ok, fetch_ok, flagged, supported) ==
    /\ ipc = "stopped"
    /\ idle_supported' = supported
    /\ flagged \subseteq fetch_ok \cap last_ids(unseen, IdleSyncCount)
    /\ IF sync_ok
       THEN /\ processed_uids' = processed_uids
                                   \cup Range(receive_emails(unseen, IdleSyncCount, fetch_ok))
            /\ unseen' = unseen \ flagged
       ELSE UNCHANGED <<processed_uids, unseen>>
    /\ ipc' = "connect"
    /\ UNCHANGED <<signal, mail_count, lpc, last_uid, new_emails, futures,
                   pending_futures, stats, handed, connVars>>
    /\ UNCHANGED agentVars

\* _establish_connection: the old session is closed, a new one opened and
\* checked for the IDLE capability; what was unread on the old one is gone
establish_connection(ok) ==
    /\ ipc = "connect"
    /\ ok => idle_supported
    /\ signal' = FALSE
    /\ ipc' = IF ok THEN "enter_idle" ELSE "retry_sleep"
    /\ UNCHANGED <<processed_uids, unseen, IdleThreadVars>>
    /\ UNCHANGED agentVars

\* time.sleep(retry_delay), then the outer loop again
retry_sleep_over ==
    /\ ipc = "retry_sleep"
    /\ ipc' = "connect"
    /\ UNCHANGED <<signal, processed_uids, unseen, IdleThreadVars>>
    /\ UNCHANGED agentVars

\* _enter_idle_mode: the socket buffer is emptied, IDLE is sent; kept tells
\* whether an EXISTS the server had not pushed yet follows the "+" answer.  On
\* failure the inner loop breaks and the outer loop reconnects at once.
enter_idle_mode(ok, kept) ==
    /\ ipc = "enter_idle"
    /\ signal' = (signal /\ kept /\ ok)
    /\ ipc' = IF ok THEN "wait" ELSE "connect"
    /\ UNCHANGED <<processed_uids, unseen, IdleThreadVars>>
    /\ UNCHANGED agentVars

\* _wait_for_signal reads an EXISTS line; _exit_idle_mode; has_signal is true
wait_for_signal ==
    /\ ipc = "wait"
    /\ signal
    /\ signal' = FALSE
    /\ ipc' = "handle"
    /\ UNCHANGED <<processed_uids, unseen, IdleThreadVars>>
    /\ UNCHANGED agentVars

\* _wait_for_signal runs into the heartbeat timeout; _exit_idle_mode; the inner
\* loop enters IDLE again
wait_times_out ==
    /\ ipc = "wait"
    /\ ~signal
    /\ ipc' = "enter_idle"
    /\ UNCHANGED <<signal, processed_uids, unseen, IdleThreadVars>>
    /\ UNCHANGED agentVars

\* _handle_new_emails: uid search UNSEEN; the first uid that is not in
\* _processed_uids is fetched with receive_single_email_by_uid, whose exception
\* ends the method before anything is added or submitted; without such a uid
\* nothing is submitted and the cache is trimmed
handle_new_emails(search_ok) ==
    /\ ipc = "handle"
    /\ LET todo == unseen \ processed_uids
       IN IF ~search_ok
          THEN UNCHANGED processed_uids
          ELSE IF todo # {}
                  /\ \A uid \in todo : receive_single_email_by_uid(uid) = "AttributeError"
          THEN UNCHANGED processed_uids
          ELSE processed_uids' \in trim_choices(processed_uids)
    /\ ipc' = "enter_idle"
    /\ UNCHANGED <<signal, unseen, IdleThreadVars>>
    /\ UNCHANGED agentVars

\* stop(): _running is cleared and the connection closed; the thread leaves
\* its loops
idle_stop ==
    /\ ipc # "stopped"
    /\ ipc' = "stopped"
    /\ signal' = FALSE
    /\ UNCHANGED <<processed_uids, unseen, IdleThreadVars>>
    /\ UNCHANGED agentVars

IdleThread ==
    \/ \E ok \in BOOLEAN : establish_connection(ok)
    \/ retry_sleep_over
    \/ \E ok, kept \in BOOLEAN : enter_idle_mode(ok, kept)
    \/ wait_for_signal
    \/ wait_times_out
    \/ \E search_ok \in BOOLEAN : handle_new_emails(search_ok)

NextIdle ==
    \/ mail_arrives
    \/ \E sync_ok \in BOOLEAN, fetch_ok \in SUBSET unseen :
           \E flagged \in SUBSET fetch_ok, supported \in BOOLEAN :
               idle_start(sync_ok, fetch_ok, flagged, supported)
    \/ idle_stop
    \/ IdleThread

\* the thread runs whenever it can, and the server does not refuse for ever:
\* connecting, entering IDLE and searching succeed again and again
IdleFairness ==
    /\ WF_vars(IdleThread)
    /\ SF_vars(establish_connection(TRUE))
    /\ SF_vars(\E kept \in BOOLEAN : enter_idle_mode(TRUE, kept))
    /\ SF_vars(handle_new_emails(TRUE))

SpecIdle == Init /\ [][NextIdle]_vars /\ IdleFairness

(***************************************************************************)
(* Properties of the callback and of the reply workflow.                   *)
(***************************************************************************)
InRun(w) == wpc[w] = "run"
RunEnded(w) == InRun(w) /\ node[w] = "END"
CurrentMsg(w) == task[w].email_message

\* C1: however often message id m is delivered to on_new_email, EmailAgent.run
\* is executed for m at most once.
C1_RunAtMostOncePerMessage == \A m \in Msgs : runs[m] <= 1

\* C2: a run for a message whose earlier run ended with email_replied = true
\* invokes no LanguageModel and sends no mail.
C2_RerunShortCircuits ==
    \A w \in Workers : InRun(w) /\ rerun[w] => runLLM[w] = 0 /\ runSends[w] = 0

\* C3: a run for a message of the master that reached END handed exactly one
\* mail to the send service, send_email node and send_email_simple calls
\* counted together.
C3_ExactlyOneReply ==
    \A w \in Workers :
        RunEnded(w) /\ Sender(CurrentMsg(w)) = master_email => runSends[w] = 1

\* C4: a run in which llm.invoke raised and that reached END sent, through the
\* send_email node, a mail whose body carries the text of the failure, and
\* ended with email_replied = true.
C4_ErrorReplyCarriesFailure ==
    \A w \in Workers :
        RunEnded(w) /\ llmRaised[w] =>
            /\ lastMail[w].body = "agent_error_detail"
            /\ task[w].email_replied

\* C5: a run for a mail sent by the assistant itself calls no LanguageModel,
\* sends nothing and ends with no turn added to the Task's messages.
C5_SelfSentAddsNothing ==
    \A w \in Workers :
        RunEnded(w) /\ Sender(CurrentMsg(w)) = assistant_email =>
            /\ runLLM[w] = 0
            /\ runSends[w] = 0
            /\ Len(task[w].messages) = before[w]

\* C6: during and after a run for a message that is not from the master, no
\* LanguageModel call and no send has happened in that run, whatever the
\* earlier messages of the batch left in the Task.
C6_NotMasterNoLLMNoReply ==
    \A w \in Workers :
        InRun(w) /\ Sender(CurrentMsg(w)) # master_email =>
            runLLM[w] = 0 /\ runSends[w] = 0

\* a run for a stranger's message ended on an agent whose Task already held the
\* turns of an earlier message of the batch
C6_Witness ==
    \E w \in Workers :
        /\ RunEnded(w)
        /\ Sender(CurrentMsg(w)) = "stranger"
        /\ before[w] > 0

\* C18: the first LanguageModel invocation of a run for a message m of the
\* master, also for the second message one EmailAgent handles in a batch, gets
\* the conversation <<system instruction, user content of m>>.
C18_FirstInvocationSeeded ==
    \A w \in Workers :
        InRun(w) /\ runLLM[w] = 1 =>
            llmInput[w] = <<SystemTurn(CurrentMsg(w)), UserTurn(CurrentMsg(w))>>

\* C19: every LanguageModel invocation of a run gets the full history of the
\* run: the system and user turns of its message, then every turn the run has
\* appended so far, in order.
C19_InvocationGetsFullHistory ==
    \A w \in Workers :
        InRun(w) /\ runLLM[w] >= 1 =>
            llmInput[w] = <<SystemTurn(CurrentMsg(w)), UserTurn(CurrentMsg(w))>>
                            \o SubSeq(task[w].messages, before[w] + 1, llmAt[w])

\* C20: process_email answers "mail already sent" only after a send_email_simple
\* tool result that reports success.
C20_OnlySuccessfulToolSendCounts ==
    \A w \in Workers :
        \A i \in 2..Len(task[w].messages) :
            task[w].messages[i].content = "sent_notice" =>
                /\ task[w].messages[i - 1].name = "send_email_simple"
                /\ task[w].messages[i - 1].content = "tool_ok"

\* C21: a run that uses up its superstep limit with the LanguageModel still
\* requesting tool calls does not end silently: the send_email node has handed
\* a reply to the send service before the run ends.
C21_LimitExceededSendsErrorReply ==
    \A w \in Workers :
        InRun(w) /\ node[w] = "RAISED" /\ LastTurn(task[w].messages).type = "tool"
            => lastMail[w] # NoMail

\* the send of the send_email node failed in the current run of worker w
SendNodeFailed(w) ==
    /\ InRun(w)
    /\ \E i \in (before[w] + 1)..Len(task[w].messages) :
           task[w].messages[i].content = "send_error"

RunTurns(w) == SubSeq(task[w].messages, before[w] + 1, Len(task[w].messages))

\* a run for a message of the master in which llm.invoke was called and has not
\* raised, and no response has requested send_email_simple
OtherToolsOnly(w) ==
    /\ InRun(w)
    /\ Sender(CurrentMsg(w)) = master_email
    /\ runLLM[w] >= 1
    /\ ~llmRaised[w]
    /\ \A i \in 1..Len(RunTurns(w)) :
           RunTurns(w)[i].type = "ai" =>
               \A c \in 1..Len(RunTurns(w)[i].tool_calls) :
                   RunTurns(w)[i].tool_calls[c] # "send_email_simple"

\* C23: in a run whose LanguageModel responses request tools other than the
\* send action, no mail is sent as long as every response so far requested
\* tools; each invocation after the first gets a conversation that ends with
\* the tool results; and a run that reaches END has sent exactly one mail, the
\* reply composed from the response without tool calls.
C23_ToolLoopThenOneReply ==
    \A w \in Workers :
        OtherToolsOnly(w) =>
            /\ (\A i \in 1..Len(RunTurns(w)) :
                    RunTurns(w)[i].type = "ai" => RunTurns(w)[i].tool_calls # <<>>)
                  => runSends[w] = 0
            /\ runLLM[w] >= 2 => LastTurn(llmInput[w]).type = "tool"
            /\ RunEnded(w) => runSends[w] = 1 /\ lastMail[w] # NoMail

\* a run that went through the tools node at least once reached END
C23_Witness ==
    \E w \in Workers :
        /\ OtherToolsOnly(w)
        /\ RunEnded(w)
        /\ runLLM[w] >= 2

\* the body the reply of the current run of worker w is to have: the content of
\* the most recent assistant response of the run, the placeholder when there is
\* none or it is empty
ExpectedBody(w) ==
    LET k == last_ai_index(RunTurns(w))
    IN IF k = 0 \/ RunTurns(w)[k].content = ""
       THEN [body |-> "placeholder", of |-> 0]
       ELSE [body |-> RunTurns(w)[k].content, of |-> RunTurns(w)[k].of]

\* C24: the mail the send_email node hands to the send service in a run for
\* message m has the subject "reply prefix + subject of m" and as body the
\* content of the most recent assistant response of that run, or the
\* placeholder when that content is empty.
C24_ReplySubjectAndBody ==
    \A w \in Workers :
        InRun(w) /\ lastMail[w] # NoMail =>
            /\ lastMail[w].subject = [kind |-> "reply", of |-> CurrentMsg(w)]
            /\ lastMail[w].body = ExpectedBody(w).body
            /\ lastMail[w].of = ExpectedBody(w).of

C29_EvictionKeepsNewestId ==
    [][\A m \in Msgs : runs'[m] = runs[m] + 1 => m \in processed_emails']_vars

\* C30: the email_replied flag of a Task never goes back from true to false
\* while the Task is that of the same message, whichever node or call of
\* EmailAgent.run takes the step; so it turns true at most once per message.
C30_RepliedFlagMonotonic ==
    [][\A w \in Workers :
          task[w].email_replied /\ task'[w].email_message = task[w].email_message
              => task'[w].email_replied]_vars

\* C31: a run that reaches END with email_replied = true has sent a mail with
\* success: its turns hold the success notice of the send_email node or a
\* send_email_simple result that reports success.
C31_RepliedOnlyAfterSuccessfulSend ==
    \A w \in Workers :
        RunEnded(w) /\ task[w].email_replied =>
            \E i \in 1..Len(RunTurns(w)) :
                \/ RunTurns(w)[i].content = "email_sent"
                \/ /\ RunTurns(w)[i].name = "send_email_simple"
                   /\ RunTurns(w)[i].content = "tool_ok"

\* C35: a workflow run whose email_message is empty invokes neither the
\* LanguageModel nor the send_email node: no mail is sent for it.
C35_EmptyMessageNoLLMNoSend ==
    \A w \in Workers :
        InRun(w) /\ task[w].email_message = 0 =>
            /\ runLLM[w] = 0
            /\ runSends[w] = 0
            /\ node[w] # "send_email"

\* C36: every mail the send_email node sends is addressed to the configured
\* master address and to no other recipient, whatever the incoming message and
\* the LanguageModel's output are.
C36_SendNodeAddressesMaster ==
    \A w \in Workers : lastMail[w] # NoMail => lastMail[w].to = master_email

\* the node has sent the LanguageModel's answer to a message
C36_Witness ==
    \E w \in Workers :
        /\ lastMail[w] # NoMail
        /\ runSends[w] >= 1
        /\ task[w].email_message \in Msgs
        /\ lastMail[w].body \notin {"placeholder", ""}
        /\ runLLM[w] >= 1

\* C34: no two workers run the reply workflow on the same Task state at the
\* same time: two on_new_email calls in progress never hold the same EmailAgent
\* and checkpoint store, and a worker goes through its batch one message at a
\* time, a run being started only from the top of the loop with no run open.
C34_NoSharedTaskState ==
    /\ \A w1, w2 \in Workers :
           w1 # w2 /\ wpc[w1] # "idle" /\ wpc[w2] # "idle" => agent[w1] # agent[w2]
    /\ \A w \in Workers :
           /\ wpc[w] # "idle" => agent[w] # 0
           /\ node[w] # "none" => wpc[w] = "run"
           /\ ENABLED on_new_email_run(w) => node[w] = "none"

\* both workers are inside a run of the workflow at once
C34_Witness ==
    /\ \A w \in Workers : wpc[w] = "run" /\ node[w] \in {"send_email", "mark_as_replied"}
    /\ agent[1] # agent[2]

\* C37: add_email_task is all-or-nothing: when it returns success = false for
\* a task id that had no row before the call, afterwards the id has no row and
\* no scheduler job; when it returns success = true with auto_schedule, it has
\* both.
C37_AddEmailTaskAllOrNothing ==
    last_result.op = "add" /\ ~last_result.existed =>
        /\ ~last_result.success =>
              /\ db[last_result.task_id] = "absent"
              /\ jobs[last_result.task_id] = 0
        /\ last_result.success /\ last_result.auto_schedule =>
              /\ db[last_result.task_id] = "active"
              /\ jobs[last_result.task_id] = 1

C7_HandedAtMostOnce == \A m \in 1..MaxMail : handed[m] <= 1

\* C11: the listener's client holds at most one session that it opened and has
\* not closed: a replacement is opened only after the previous one was closed.
C11_AtMostOneSession == sessions <= 1

\* C12: once the call of stop() is over, it has returned normally, mode is
\* STOPPED and the service's client holds no session.
C12_StopReachesStopped ==
    stop_call # NoStop =>
        /\ stop_call.outcome = "returned"
        /\ mode = "stopped"
        /\ client.conn \in {"no_service", "none"}

\* C13: a stop() called while callbacks were still in flight nevertheless
\* closes the transport and reaches STOPPED.
C13_StopProceedsWithWorkInFlight ==
    stop_call # NoStop /\ stop_call.in_flight > 0 =>
        mode = "stopped" /\ sessions = 0

\* C14: when the detection loop recovers from a broken session, the broken
\* session is closed and one new session is open.
C14_RecoveryClosesBrokenSession ==
    [][client.conn = "broken" /\ client'.conn = "open" => sessions' = 1]_vars

\* C16: _last_uid never regresses.
C16_CursorNeverRegresses == [][last_uid' >= last_uid]_vars

\* C17: a message the initial sync of start() returned is never passed to the
\* new-mail callback.
C17_SyncedNeverHanded == \A m \in synced : handed[m] = 0

\* C8: a message that is unseen in the mailbox while the watcher runs is
\* eventually passed to the new-mail callback, unless the watcher is stopped
\* (on a server that offers IDLE).
C8_EventuallyHanded ==
    \A m \in 1..MaxMail :
        (idle_supported /\ m \in unseen /\ ipc # "stopped")
            ~> (handed[m] >= 1 \/ ipc = "stopped")

\* C15: on a server without IDLE the watcher falls back to polling: a message
\* that is unseen while it runs is eventually passed to the new-mail callback.
C15_FallsBackToPolling ==
    \A m \in 1..MaxMail :
        (~idle_supported /\ ipc # "stopped" /\ m \in unseen)
            ~> (handed[m] >= 1 \/ ipc = "stopped")

\* C25: an exception of the new-mail callback stays on the worker: the future
\* of every processed batch, also of one whose callback raised, ends without
\* exception, and its completion callback has taken it off the pending list and
\* counted it.
C25_CallbackExceptionContained ==
    /\ \A f \in 1..Len(futures) :
          futures[f].st = "done" => ~futures[f].exception /\ f \notin pending_futures
    /\ stats.completed_tasks
          = Cardinality({ f \in 1..Len(futures) : futures[f].st = "done" })

\* a batch whose callback raised is done while the detection thread, still
\* running, has submitted the batch of its next poll
C25_Witness ==
    /\ Len(futures) = 2
    /\ futures[1].st = "done" /\ futures[1].raised
    /\ futures[2].st = "queued"
    /\ running

\* the steps of the detection thread
ProcessStep ==
    \E o \in client_command(client) :
        \E marked \in SUBSET Range(new_emails) : process_new_emails(o, marked)

PollStep == \E o \in client_command(ensure_service(client)) : poll_fails(o)

\* C26: while a submitted batch is still queued or being processed, the
\* detection thread is never held up: it can hand its batch to the pool, leave
\* its sleep and run its next poll.
C26_SubmitNeverBlocksDetection ==
    (\E f \in 1..Len(futures) : futures[f].st # "done") =>
        /\ lpc = "process" => ENABLED ProcessStep
        /\ lpc = "sleep" /\ running => ENABLED poll_sleep_over
        /\ lpc = "poll" /\ running => ENABLED poll_begins
        /\ lpc = "search" => ENABLED PollStep

\* a second batch was submitted while the callback of the first is running
C26_Witness ==
    /\ Len(futures) = 2
    /\ futures[1].st = "running"
    /\ futures[2].st = "queued"

C28_SleepBeforeReconnect ==
    [][ipc # "connect" /\ ipc' = "connect" => ipc \in {"stopped", "retry_sleep"}]_vars

\* C39: IMAPClient never runs a search, fetch or store on a session that has
\* no folder selected: when a command is called with the folder cached in
\* _current_folder, so that select_folder skips the SELECT, and a new session is
\* made for the command, the client ends with that folder selected on it.
C39_CommandRunsOnSelectedSession ==
    [][(client.folder /\ sessions' > sessions) => client'.folder]_vars

C32_CountersSettle ==
    (DetectionFree /\ \A f \in 1..Len(futures) : futures[f].st = "done") =>
        /\ stats.processing_tasks = 0
        /\ pending_futures = {}
        /\ stats.completed_tasks = Len(futures)

AllFuturesDone ==
    /\ lpc # "process"
    /\ \A f \in 1..Len(futures) : futures[f].st = "done"

\* C9: once every submitted batch is processed, completed_tasks has grown by the
\* number of messages received in those batches.
C9_CompletedCountsMessages ==
    AllFuturesDone => stats.completed_tasks = stats.total_received

====
